---- MODULE Spec2Model ----
(***************************************************************************)
(* Model of the UHI analysis service of backend/app.py: the /api/uhi       *)
(* handler get_uhi_data and the three UHIAnalyzer stages it calls          *)
(* (fetch_satellite_data, sample_points, classify_heat_zones).             *)
(*                                                                         *)
(* Numbers.  LST is kept in whole degrees Celsius and NDVI in tenths       *)
(* (ndvi = 3 stands for 0.3), so the code's thresholds -50, 70, -1, 1,     *)
(* 0, 0.2, 0.5 read -50, 70, -10, 10, 0, 2, 5.  Means and cluster centres  *)
(* are exact fractions: a centre is the pair of coordinate sums and the    *)
(* number of points (sl/cnt, sn/cnt).  Comparisons are cross-multiplied,   *)
(* so no rounding enters the model.                                        *)
(***************************************************************************)
EXTENDS Integers, Sequences, FiniteSets, TLC

VARIABLES
    pc,             \* position of the handler / of the classifier harness
    num_points,     \* get_uhi_data: the parsed 'points' argument (0: not yet)
    days_back,      \* get_uhi_data: the parsed 'days' argument (0: not yet)
    calls,          \* the UHIAnalyzer methods invoked so far, in order
    landsat,        \* fetch_satellite_data: landsat.size().getInfo(), once known
    satellite_data, \* what fetch_satellite_data returned
    features,       \* sampled.getInfo()['features'] inside sample_points, once known
    data,           \* the list of point dicts (annotated in place)
    n_clusters,     \* classify_heat_zones: its n_clusters argument
    rng,            \* the draws RandomState(random_state) made for a fit
    first,          \* harness: a copy of what the first classification returned
    response        \* what the handler (or the classifier call) ended in

vars == <<pc, num_points, days_back, calls, landsat, satellite_data, features, data,
          n_clusters, rng, first, response>>

\* Python's None, and a value that is there
None == <<>>

Some(v) == <<v>>

(***************************************************************************)
(* Bounds of the model.                                                    *)
(***************************************************************************)
\* most features the provider returns for one request
MaxFeatures == 3
\* most points in a batch handed to the classifier harness
MaxBatch == 3

(***************************************************************************)
(* Small helpers.                                                          *)
(***************************************************************************)
Abs(x) == IF x < 0 THEN -x ELSE x

Range(s) == {s[i] : i \in DOMAIN s}

RECURSIVE SumSeq(_)
SumSeq(s) == IF s = <<>> THEN 0 ELSE Head(s) + SumSeq(Tail(s))

RECURSIVE SeqsUpTo(_, _)
SeqsUpTo(S, n) ==
    IF n = 0 THEN {<<>>}
    ELSE LET shorter == SeqsUpTo(S, n - 1)
         IN  shorter \cup {Append(s, x) : s \in {t \in shorter : Len(t) = n - 1}, x \in S}

(***************************************************************************)
(* Inputs.                                                                 *)
(***************************************************************************)
\* request.args.get('points') and request.args.get('days'): the query
\* string's text, or Absent when the query string has no such parameter
Absent == "(absent)"

PointsArgs == {Absent, "abc", "5", "9", "10", "500", "501"}

DaysArgs == {Absent, "abc"}

\* int(text): the texts above that int() accepts, and their values
IntText ==
    ("5" :> 5) @@ ("9" :> 9) @@ ("10" :> 10) @@ ("500" :> 500) @@ ("501" :> 501)

\* int(request.args.get(name, default)) raises ValueError
BadInt(text) == text # Absent /\ text \notin DOMAIN IntText

\* int(request.args.get(name, default)) when it does not raise
ParseInt(text, default) == IF text = Absent THEN default ELSE IntText[text]

\* the 'properties' of one sampled feature: LST and NDVI may be missing
\* (a masked pixel), and either may lie outside the accepted range
ValidProps == { [LST |-> 34, NDVI |-> 2], [LST |-> 31, NDVI |-> 6],
                [LST |-> 28, NDVI |-> 10] }

InvalidProps == { [LST |-> 70, NDVI |-> 2], [LST |-> -50, NDVI |-> 2],
                  [LST |-> 31, NDVI |-> 11], [LST |-> 31, NDVI |-> -11],
                  [LST |-> 31], [NDVI |-> 6] }

ProviderProps == ValidProps \cup InvalidProps

\* feature i of the collection lies at its own random point
Feature(props, i) == [properties |-> props, coordinates |-> <<i, i>>]

\* the points a classifier test is given: rows that sample_points accepts
HarnessProps == { [LST |-> 34, NDVI |-> 2], [LST |-> 31, NDVI |-> 2],
                  [LST |-> 31, NDVI |-> 6] }

\* the n_clusters a classifier test passes
ClusterCounts == {2, 3, 4}

FeatureLists ==
    { [i \in DOMAIN ps |-> Feature(ps[i], i)] : ps \in SeqsUpTo(ProviderProps, MaxFeatures) }

(***************************************************************************)
(* UHIAnalyzer.sample_points: the loop over the provider's features.       *)
(***************************************************************************)
\* the filter with the upper LST bound read inclusively ('lst_val <= 70')
AcceptedUpTo70(props) ==
    /\ "LST" \in DOMAIN props
    /\ "NDVI" \in DOMAIN props
    /\ -50 < props.LST /\ props.LST <= 70
    /\ -10 <= props.NDVI /\ props.NDVI <= 10

\* 'LST' in props and 'NDVI' in props, then
\* -50 < lst_val < 70 and -1 <= ndvi_val <= 1
Accepted(props) ==
    /\ "LST" \in DOMAIN props
    /\ "NDVI" \in DOMAIN props
    /\ -50 < props.LST /\ props.LST < 70
    /\ -10 <= props.NDVI /\ props.NDVI <= 10

RECURSIVE sample_points(_)
sample_points(feats) ==
    IF feats = <<>> THEN <<>>
    ELSE LET feature == Head(feats)
             props == feature.properties
             coords == feature.coordinates
             rest == sample_points(Tail(feats))
         IN  IF Accepted(props)
             THEN <<[lon |-> coords[1], lat |-> coords[2],
                     lst |-> props.LST, ndvi |-> props.NDVI]>> \o rest
             ELSE rest

(***************************************************************************)
(* StandardScaler.fit_transform and the metric K-means works in.           *)
(* X is the list of (lst, ndvi) rows.  ScaleSq(X, f) is n*n times the      *)
(* squared scale of feature f: n*n*variance, or n*n when the variance is   *)
(* zero (the scaler divides a constant feature by 1).  The squared         *)
(* distance of a row to a centre in the scaled space is                    *)
(*   (x.lst - c.lst)^2 / scale_lst^2 + (x.ndvi - c.ndvi)^2 / scale_ndvi^2  *)
(* and DistNum is that distance times cnt^2 and a positive factor that is  *)
(* the same for every row and centre of X, an integer.                     *)
(***************************************************************************)
Features(d) == [i \in DOMAIN d |-> [lst |-> d[i].lst, ndvi |-> d[i].ndvi]]

Column(X, f) == [i \in DOMAIN X |-> X[i][f]]

VarN2(X, f) ==
    LET col == Column(X, f)
    IN  Len(X) * SumSeq([i \in DOMAIN col |-> col[i] * col[i]]) - SumSeq(col) * SumSeq(col)

ScaleSq(X, f) == IF VarN2(X, f) = 0 THEN Len(X) * Len(X) ELSE VarN2(X, f)

RECURSIVE GCD(_, _)
GCD(a, b) == IF b = 0 THEN a ELSE GCD(b, a % b)

\* the two squared scales with their common factor taken out
Weight(X, f) == ScaleSq(X, f) \div GCD(ScaleSq(X, "lst"), ScaleSq(X, "ndvi"))

PointCentre(x) == [sl |-> x.lst, sn |-> x.ndvi, cnt |-> 1]

\* what the scaler's fit fixes for one X: the number of rows, the weights
\* of the two squared coordinate differences, the squared scales, the
\* number of features that vary (each has variance 1 once scaled) and the
\* mean of all rows, which is the origin of the scaled space
Metric(X) ==
    [ n |-> Len(X),
      wl |-> Weight(X, "ndvi"),
      wn |-> Weight(X, "lst"),
      sl |-> ScaleSq(X, "lst"),
      sn |-> ScaleSq(X, "ndvi"),
      varying |-> Cardinality({f \in {"lst", "ndvi"} : VarN2(X, f) # 0}),
      origin |-> [sl |-> SumSeq(Column(X, "lst")), sn |-> SumSeq(Column(X, "ndvi")),
                  cnt |-> Len(X)] ]

DistNum(M, x, c) ==
    LET dl == x.lst * c.cnt - c.sl
        dn == x.ndvi * c.cnt - c.sn
    IN  dl * dl * M.wl + dn * dn * M.wn

\* row x is strictly nearer to centre a than to centre b
Nearer(M, x, a, b) == DistNum(M, x, a) * b.cnt * b.cnt < DistNum(M, x, b) * a.cnt * a.cnt

\* two centres at the same place
SamePlace(a, b) == a.sl * b.cnt = b.sl * a.cnt /\ a.sn * b.cnt = b.sn * a.cnt

(***************************************************************************)
(* KMeans(n_clusters, random_state=42, n_init=10, max_iter=300)            *)
(* .fit_predict(X_scaled), as the library runs it: k-means++ seeding and   *)
(* Lloyd iterations.  Cluster j of the model is raw label j - 1.           *)
(***************************************************************************)
max_iter == 300

\* 1 / tol, tol being the library's default 1e-4
tol_inv == 10000

\* k-means++: the first centre is any row; each further centre is drawn with
\* probability proportional to its squared distance to the nearest centre
\* chosen so far, so it is a row that differs from all of them; when no row
\* differs the draw lands on the first row.
RECURSIVE Seedings(_, _)
Seedings(X, k) ==
    IF k = 1 THEN {<<i>> : i \in DOMAIN X}
    ELSE UNION { LET fresh == {i \in DOMAIN X : \A m \in DOMAIN s : X[i] # X[s[m]]}
                 IN  {Append(s, i) : i \in IF fresh = {} THEN {1} ELSE fresh}
                 : s \in Seedings(X, k - 1) }

\* E-step: argmin over the centres, the lowest label among equals
Label(M, x, centers) ==
    CHOOSE j \in DOMAIN centers :
        /\ \A m \in DOMAIN centers : ~Nearer(M, x, centers[m], centers[j])
        /\ \A m \in 1..(j - 1) : Nearer(M, x, centers[j], centers[m])

Assign(M, X, centers) == [i \in DOMAIN X |-> Label(M, X[i], centers)]

Members(labels, j) == {i \in DOMAIN labels : labels[i] = j}

RECURSIVE SumOver(_, _, _)
SumOver(X, f, S) ==
    IF S = {} THEN 0
    ELSE LET i == CHOOSE i \in S : TRUE IN X[i][f] + SumOver(X, f, S \ {i})

\* M-step before averaging: per cluster the coordinate sums and the weight
ClusterSums(X, labels, k) ==
    [j \in 1..k |-> [sl |-> SumOver(X, "lst", Members(labels, j)),
                     sn |-> SumOver(X, "ndvi", Members(labels, j)),
                     cnt |-> Cardinality(Members(labels, j))]]

\* row i lies at least as far from its centre as row m from its own
AsFar(M, X, centers, labels, i, m) ==
    LET a == centers[labels[i]]
        b == centers[labels[m]]
    IN  DistNum(M, X[i], a) * b.cnt * b.cnt >= DistNum(M, X[m], b) * a.cnt * a.cnt

\* _relocate_empty_clusters: the rows farthest from their centres, one per
\* empty cluster.  argpartition leaves the order among equal distances and
\* inside the selected tail open; its last row is the nearest of the tail.
FarFromCenters(M, X, centers, labels, n_empty) ==
    { far \in [1..n_empty -> DOMAIN X] :
        /\ \A a, b \in 1..n_empty : a # b => far[a] # far[b]
        /\ \A a \in 1..n_empty : \A m \in DOMAIN X \ Range(far) :
               AsFar(M, X, centers, labels, far[a], m)
        /\ \A a \in 1..n_empty : AsFar(M, X, centers, labels, far[a], far[n_empty]) }

RECURSIVE Relocate(_, _, _, _, _, _)
Relocate(X, labels, sums, empty, far, idx) ==
    IF idx > Len(empty) THEN sums
    ELSE LET new_cluster_id == empty[idx]
             far_idx == far[idx]
             old_cluster_id == labels[far_idx]
             old == sums[old_cluster_id]
             moved == [sums EXCEPT
                          ![old_cluster_id] = [sl |-> old.sl - X[far_idx].lst,
                                               sn |-> old.sn - X[far_idx].ndvi,
                                               cnt |-> old.cnt - 1],
                          ![new_cluster_id] = PointCentre(X[far_idx])]
         IN  Relocate(X, labels, moved, empty, far, idx + 1)

RECURSIVE SortedSeq(_)
SortedSeq(S) ==
    IF S = {} THEN <<>>
    ELSE LET m == CHOOSE x \in S : \A y \in S : x <= y IN <<m>> \o SortedSeq(S \ {m})

\* a cluster left without weight keeps its sums, which are zero in the
\* centred scaled space: its centre is the origin
Average(M, sums) == [j \in DOMAIN sums |-> IF sums[j].cnt = 0 THEN M.origin ELSE sums[j]]

\* lloyd_iter: the centres an iteration can produce from the labels
NewCenters(M, X, centers, labels, k) ==
    UNION { LET empty == SortedSeq({j \in 1..k : sums[j].cnt = 0})
            IN  IF empty = <<>> THEN {sums}
                ELSE {Average(M, Relocate(X, labels, sums, empty, far, 1))
                        : far \in FarFromCenters(M, X, centers, labels, Len(empty))}
            : sums \in {ClusterSums(X, labels, k)} }

\* coordinate f of the centre moved from a to b by more than the whole
\* tolerance tol * mean(var(X_scaled)) allows:
\* (b - a)^2 / scale^2 > tol * varying / 2
MovedBeyondTol(M, f, a, b) ==
    LET p == b[f] * a.cnt - a[f] * b.cnt
        q == a.cnt * b.cnt
    IN  p * p > (q * q * M[f]) \div ((2 * tol_inv * M.n * M.n) \div M.varying)

\* center_shift_tot <= tol.  No shift at all is within it; one coordinate
\* beyond it decides against; in between the sum of the shifts decides, and
\* both answers are kept.
ShiftWithinTol(M, old, new) ==
    IF \A j \in DOMAIN old : SamePlace(old[j], new[j]) THEN {TRUE}
    ELSE IF M.varying = 0 THEN {FALSE}
    ELSE IF \E j \in DOMAIN old, f \in {"sl", "sn"} : MovedBeyondTol(M, f, old[j], new[j])
         THEN {FALSE}
    ELSE BOOLEAN

\* one pass of the loop of _kmeans_single_lloyd from s = (centers, labels_old)
LloydStep(M, X, k, s) ==
    UNION { UNION { IF labels = s.labels
                    THEN {[done |-> TRUE, labels |-> labels, centers |-> c]}
                    ELSE {IF within
                          THEN [done |-> TRUE, labels |-> Assign(M, X, c), centers |-> c]
                          ELSE [done |-> FALSE, labels |-> labels, centers |-> c]
                            : within \in ShiftWithinTol(M, s.centers, c)}
                    : c \in NewCenters(M, X, s.centers, labels, k) }
            : labels \in {Assign(M, X, s.centers)} }

Fit(o) == [labels |-> o.labels, centers |-> o.centers]

\* the loop: S holds what the run can be in after t passes (before, and
\* before2 one and two passes earlier); a run still going after max_iter
\* passes labels the rows by its last centres.  Once S is what it was two
\* passes earlier the passes repeat, and with an even number of them left
\* the run ends in S.
RECURSIVE Lloyd(_, _, _, _, _, _, _)
Lloyd(M, X, k, t, S, before, before2) ==
    IF S = {} THEN {}
    ELSE IF t = max_iter \/ (S = before2 /\ (max_iter - t) % 2 = 0)
         THEN {[labels |-> Assign(M, X, s.centers), centers |-> s.centers] : s \in S}
    ELSE UNION { {Fit(o) : o \in {u \in outs : u.done}}
                   \cup UNION { Lloyd(M, X, k, t + 1, going, S, before)
                                : going \in {{Fit(o) : o \in {u \in outs : ~u.done}}} }
                 : outs \in {UNION {LloydStep(M, X, k, s) : s \in S}} }

\* the fits KMeans can return for X.  Each of the n_init runs is one
\* seeding followed by Lloyd, and the run of least inertia is kept: what
\* one run can return is what the best of them can be.
KMeansFits(X, k) ==
    UNION { UNION { Lloyd(M, X, k, 0,
                          {[labels |-> <<>>,
                            centers |-> [j \in 1..k |-> PointCentre(X[seed[j]])]]},
                          {}, {})
                    : seed \in Seedings(X, k) }
            : M \in {Metric(X)} }

(***************************************************************************)
(* UHIAnalyzer.classify_heat_zones after the fit.                          *)
(***************************************************************************)
\* centre a has a lower LST than centre b
LstBelow(a, b) == a.sl * b.cnt < b.sl * a.cnt

\* np.argsort(centers[:, 0]): raw labels by ascending centre LST, equal
\* centres in label order
Argsort(centers) ==
    LET k == Len(centers)
        pos(j) == Cardinality({m \in 1..k : \/ LstBelow(centers[m], centers[j])
                                             \/ /\ ~LstBelow(centers[j], centers[m])
                                                /\ m < j})
    IN  [i \in 1..k |-> (CHOOSE j \in 1..k : pos(j) = i - 1) - 1]

Reversed(s) == [i \in DOMAIN s |-> s[Len(s) + 1 - i]]

\* the sort without the reversal, np.argsort(centers[:, 0])
coldest_first(centers) == Argsort(centers)

\* center_indices = np.argsort(centers[:, 0])[::-1]
center_indices(centers) == Reversed(Argsort(centers))

\* the dictionary built the other way round, {i: center_indices[i]}
rank_to_label(centers) ==
    LET ci == center_indices(centers)
    IN  [i \in {m - 1 : m \in DOMAIN ci} |-> ci[i + 1]]

\* label_mapping = {center_indices[i]: i for i in range(n_clusters)}
label_mapping(centers) ==
    LET ci == center_indices(centers)
    IN  [raw \in Range(ci) |-> (CHOOSE i \in DOMAIN ci : ci[i] = raw /\ \A m \in DOMAIN ci : ci[m] = raw => m <= i) - 1]

\* a chain that names the third zone instead of ending in else
SeverityOfThree(zone) ==
    IF zone = 0 THEN "Critical"
    ELSE IF zone = 1 THEN "Moderate"
    ELSE IF zone = 2 THEN "Low" ELSE "Unknown"

\* the if / elif / else on d['zone']
Severity(zone) ==
    IF zone = 0 THEN "Critical" ELSE IF zone = 1 THEN "Moderate" ELSE "Low"

Recommendation(zone) ==
    IF zone = 0
    THEN "Urgent: Implement green infrastructure - tree plantation, green roofs, vertical gardens, cool pavements"
    ELSE IF zone = 1
    THEN "Medium Priority: Develop urban parks, water bodies, increase albedo with reflective surfaces"
    ELSE "Maintenance: Preserve existing vegetation, monitor for changes"

Priority(zone) == IF zone = 0 THEN 1 ELSE IF zone = 1 THEN 2 ELSE 3

Color(zone) == IF zone = 0 THEN "#ef4444" ELSE IF zone = 1 THEN "#f97316" ELSE "#22c55e"

\* the if / elif chain on d['ndvi'] (0, 0.2 and 0.5 in tenths)
Vegetation(ndvi) ==
    IF ndvi < 0 THEN "Water/Built-up"
    ELSE IF ndvi < 2 THEN "Barren/Sparse"
    ELSE IF ndvi < 5 THEN "Moderate Vegetation"
    ELSE "Dense Vegetation"

\* the body of the loop for point d with raw label original_label: the keys
\* it sets on d, over the keys d had.  uhi_intensity = d['lst'] - avg_lst is
\* kept as the fraction num / den.
Annotate(d, original_label, mapping, lst_sum, n) ==
    LET zone == mapping[original_label]
    IN  [ zone |-> zone,
          cluster_id |-> original_label,
          uhi_intensity |-> [num |-> d.lst * n - lst_sum, den |-> n],
          severity |-> Severity(zone),
          recommendation |-> Recommendation(zone),
          priority |-> Priority(zone),
          color |-> Color(zone),
          vegetation |-> Vegetation(d.ndvi) ] @@ d

\* the comparison one off: len(data) < n_clusters - 1
InsufficientByTwo(d, k) == Len(d) < k - 1

\* len(data) < n_clusters
Insufficient(d, k) == Len(d) < k

\* the list 'data' after the loop over enumerate(data), given what
\* fit_predict returned
Classified(d, fit) ==
    LET mapping == label_mapping(fit.centers)
        lst_sum == SumSeq([i \in DOMAIN d |-> d[i].lst])
    IN  [i \in DOMAIN d |-> Annotate(d[i], fit.labels[i] - 1, mapping, lst_sum, Len(d))]

(***************************************************************************)
(* The statistics get_uhi_data computes.  Temperatures are in hundredths   *)
(* of a degree and NDVI in thousandths, which is what round(x, 2) and      *)
(* round(x, 3) keep.                                                       *)
(***************************************************************************)
\* round(a / b) for b > 0, halves to the even neighbour
RoundDiv(a, b) ==
    LET q == a \div b
        r == a % b
    IN  IF 2 * r < b THEN q
        ELSE IF 2 * r > b THEN q + 1
        ELSE IF q % 2 = 0 THEN q ELSE q + 1

RECURSIVE IsqrtIn(_, _, _)
IsqrtIn(x, lo, hi) ==
    IF lo = hi THEN lo
    ELSE LET mid == (lo + hi + 1) \div 2
         IN  IF mid * mid <= x THEN IsqrtIn(x, mid, hi) ELSE IsqrtIn(x, lo, mid - 1)

\* the integer part of the square root of x
Isqrt(x) == IsqrtIn(x, 0, 40000)

MaxOf(S) == CHOOSE x \in S : \A y \in S : y <= x

MinOf(S) == CHOOSE x \in S : \A y \in S : x <= y

Statistics(classified_data, start_days, image_date) ==
    LET n == Len(classified_data)
        lst_values == [i \in 1..n |-> classified_data[i].lst]
        ndvi_values == [i \in 1..n |-> classified_data[i].ndvi]
        uhi_intensities == [i \in 1..n |-> classified_data[i].uhi_intensity.num]
        zones(z) == Cardinality({i \in 1..n : classified_data[i].zone = z})
        var_n2 == n * SumSeq([i \in 1..n |-> lst_values[i] * lst_values[i]])
                    - SumSeq(lst_values) * SumSeq(lst_values)
    IN  [ total_points |-> n,
          high_heat_zones |-> zones(0),
          medium_heat_zones |-> zones(1),
          low_heat_zones |-> zones(2),
          temperature |->
              [ avg_lst |-> RoundDiv(100 * SumSeq(lst_values), n),
                min_lst |-> 100 * MinOf(Range(lst_values)),
                max_lst |-> 100 * MaxOf(Range(lst_values)),
                \* round(100 * sqrt(var_n2) / n)
                std_lst |-> (Isqrt(40000 * var_n2) + n) \div (2 * n) ],
          vegetation |->
              [ avg_ndvi |-> RoundDiv(100 * SumSeq(ndvi_values), n),
                min_ndvi |-> 100 * MinOf(Range(ndvi_values)),
                max_ndvi |-> 100 * MaxOf(Range(ndvi_values)) ],
          uhi |->
              [ max_intensity |-> RoundDiv(100 * MaxOf(Range(uhi_intensities)), n),
                avg_intensity |-> RoundDiv(100 * SumSeq(uhi_intensities), n * n) ],
          date_range |-> [start_days_ago |-> start_days, end_days_ago |-> 0,
                          image_date |-> image_date] ]

(***************************************************************************)
(* One call of classify_heat_zones(data, n_clusters).                      *)
(***************************************************************************)
random_state == 42

\* KMeans without random_state: every fit draws anew
DrawsAnew(r, X, k) == FALSE

\* KMeans(random_state=42) seeds a new RandomState for every fit: a fit of
\* the X and k it was run on before makes the same draws (r is what the
\* last fit drew, if any)
SameDraws(r, X, k) ==
    r # None /\ r[1].seed = random_state /\ r[1].X = X /\ r[1].k = k

FitsFor(r, X, k) == IF SameDraws(r, X, k) THEN {r[1].fit} ELSE KMeansFits(X, k)

\* what the call can do: raise (with str(e) as message), or annotate the
\* list in place and return it; 'clustered' tells whether fit_predict ran
ClassifyOutcomes(d, k, r) ==
    IF Insufficient(d, k)
    THEN {[raised |-> TRUE, message |-> <<"Insufficient data points. Need at least", k>>,
           clustered |-> FALSE, data |-> d, rng |-> r]}
    ELSE IF Len(d) < k
    THEN {[raised |-> TRUE, message |-> <<"n_samples should be >= n_clusters", k>>,
           clustered |-> TRUE, data |-> d, rng |-> r]}
    ELSE {[raised |-> FALSE, message |-> <<>>, clustered |-> TRUE,
           data |-> Classified(d, fit),
           rng |-> Some([seed |-> random_state, X |-> Features(d), k |-> k, fit |-> fit])]
            : fit \in FitsFor(r, Features(d), k)}

LibraryCalls(o) == IF o.clustered THEN <<"KMeans.fit_predict">> ELSE <<>>

(***************************************************************************)
(* The handler get_uhi_data, stage by stage.                               *)
(***************************************************************************)
\* the three kinds of error response the handler builds
InvalidParameter ==
    [status |-> 400, success |-> "unset", error |-> "Points must be between 10 and 500",
     message |-> <<>>]

NoValidData ==
    [status |-> 404, success |-> "unset", error |-> "No valid data points found",
     message |-> <<"Try adjusting the date range or location">>]

\* the except clause: any exception e, with str(e) as message
Failed(message) ==
    [status |-> 500, success |-> "False", error |-> "Failed to process UHI data",
     message |-> message]

\* a handler that goes on without looking at the list
NeverEmpty(d) == FALSE

\* 'if not data'
NoData(d) == Len(d) = 0

OutOfRange(n) == n < 10 \/ n > 500

Init ==
    /\ pc = "start"
    /\ num_points = 0
    /\ days_back = 0
    /\ calls = <<>>
    /\ landsat = None
    /\ satellite_data = None
    /\ features = None
    /\ data = <<>>
    /\ n_clusters = 3
    /\ rng = None
    /\ first = None
    /\ response = None

\* get the parameters and validate them
Request ==
    /\ pc = "start"
    /\ \E points \in PointsArgs, days \in DaysArgs :
          /\ num_points' = IF BadInt(points) THEN num_points ELSE ParseInt(points, 100)
          /\ days_back' = IF BadInt(points) \/ BadInt(days) THEN days_back
                          ELSE ParseInt(days, 30)
          /\ IF BadInt(points) \/ BadInt(days)
             THEN /\ response' = Some(Failed(<<"invalid literal for int() with base 10">>))
                  /\ pc' = "done"
             ELSE IF OutOfRange(ParseInt(points, 100))
             THEN /\ response' = Some(InvalidParameter)
                  /\ pc' = "done"
             ELSE /\ response' = response
                  /\ pc' = "validated"
    /\ UNCHANGED <<calls, landsat, satellite_data, features, data, n_clusters, rng, first>>

\* how many scenes the filtered collection can hold
SceneCounts == {0, 1}

\* 'if landsat.size().getInfo() == 0'
NoScenes(size) == size = 0

\* analyzer.fetch_satellite_data(...): a request to the provider fails, the
\* provider has no scene for the date range, or it yields the bands and the
\* date of its first scene
FetchSatelliteData ==
    /\ pc = "validated"
    /\ calls' = Append(calls, "fetch_satellite_data")
    /\ \/ /\ response' = Some(Failed(<<"Earth Engine request failed">>))
          /\ pc' = "done"
          /\ UNCHANGED <<landsat, satellite_data>>
       \/ \E size \in SceneCounts :
             /\ landsat' = Some(size)
             /\ IF NoScenes(size)
                THEN /\ response' = Some(Failed(<<"No Landsat data available for this period">>))
                     /\ pc' = "done"
                     /\ UNCHANGED satellite_data
                ELSE \/ /\ response' = Some(Failed(<<"Earth Engine request failed">>))
                        /\ pc' = "done"
                        /\ UNCHANGED satellite_data
                     \/ /\ satellite_data' = Some([bands |-> <<"nir", "red", "thermal">>,
                                                   image_date |-> "YYYY-MM-dd"])
                        /\ pc' = "fetched"
                        /\ UNCHANGED response
    /\ UNCHANGED <<num_points, days_back, features, data, n_clusters, rng, first>>

\* analyzer.sample_points(satellite_data, num_points) and the check of its
\* result: the provider fails, or returns at most num_points features
SamplePoints ==
    /\ pc = "fetched"
    /\ calls' = Append(calls, "sample_points")
    /\ \/ /\ response' = Some(Failed(<<"Earth Engine request failed">>))
          /\ pc' = "done"
          /\ UNCHANGED <<features, data>>
       \/ \E feats \in FeatureLists :
             /\ Len(feats) <= num_points
             /\ features' = Some(feats)
             /\ data' = sample_points(feats)
             /\ IF NoData(sample_points(feats))
                THEN /\ response' = Some(NoValidData)
                     /\ pc' = "done"
                ELSE /\ response' = response
                     /\ pc' = "sampled"
    /\ UNCHANGED <<num_points, days_back, landsat, satellite_data, n_clusters, rng, first>>

\* analyzer.classify_heat_zones(data)
ClassifyHeatZones ==
    /\ pc = "sampled"
    /\ \E o \in ClassifyOutcomes(data, n_clusters, rng) :
          /\ calls' = Append(calls, "classify_heat_zones") \o LibraryCalls(o)
          /\ data' = o.data
          /\ rng' = o.rng
          /\ IF o.raised
             THEN /\ response' = Some(Failed(o.message))
                  /\ pc' = "done"
             ELSE /\ response' = response
                  /\ pc' = "classified"
    /\ UNCHANGED <<num_points, days_back, landsat, satellite_data, features, n_clusters, first>>

\* the statistics and the success response
Respond ==
    /\ pc = "classified"
    /\ response' = Some([status |-> 200, success |-> "True", error |-> "", message |-> <<>>,
                         data |-> data,
                         statistics |-> Statistics(data, days_back, satellite_data[1].image_date)])
    /\ pc' = "done"
    /\ UNCHANGED <<num_points, days_back, calls, landsat, satellite_data, features, data,
                   n_clusters, rng, first>>

Next == Request \/ FetchSatelliteData \/ SamplePoints \/ ClassifyHeatZones \/ Respond

Spec == Init /\ [][Next]_vars

(***************************************************************************)
(* The classifier called on its own, as a test of it does: once on a batch *)
(* of sample points, then again on the list the first call returned.       *)
(***************************************************************************)
Batch(ps) == sample_points([i \in DOMAIN ps |-> Feature(ps[i], i)])

\* longer batches: four and five points, the five with a repeated point
ExampleBatches ==
    { Batch(<<[LST |-> 34, NDVI |-> 2], [LST |-> 31, NDVI |-> 2],
              [LST |-> 31, NDVI |-> 6], [LST |-> 28, NDVI |-> 6]>>),
      Batch(<<[LST |-> 28, NDVI |-> 10], [LST |-> 34, NDVI |-> 2],
              [LST |-> 31, NDVI |-> 6], [LST |-> 28, NDVI |-> 10],
              [LST |-> 33, NDVI |-> 2]>>) }

HarnessBatches == {Batch(ps) : ps \in SeqsUpTo(HarnessProps, MaxBatch)} \cup ExampleBatches

HarnessInit ==
    /\ pc = "test"
    /\ num_points = 0
    /\ days_back = 0
    /\ calls = <<>>
    /\ landsat = None
    /\ satellite_data = None
    /\ features = None
    /\ data \in HarnessBatches
    /\ n_clusters \in ClusterCounts
    /\ rng = None
    /\ first = None
    /\ response = None

TestClassify ==
    /\ pc = "test"
    /\ \E o \in ClassifyOutcomes(data, n_clusters, rng) :
          /\ calls' = Append(calls, "classify_heat_zones") \o LibraryCalls(o)
          /\ data' = o.data
          /\ rng' = o.rng
          /\ IF o.raised
             THEN /\ response' = Some(Failed(o.message))
                  /\ first' = first
                  /\ pc' = "raised"
             ELSE /\ response' = response
                  /\ first' = Some(o.data)
                  /\ pc' = "returned"
    /\ UNCHANGED <<num_points, days_back, landsat, satellite_data, features, n_clusters>>

TestClassifyAgain ==
    /\ pc = "returned"
    /\ \E o \in ClassifyOutcomes(data, n_clusters, rng) :
          /\ calls' = Append(calls, "classify_heat_zones") \o LibraryCalls(o)
          /\ data' = o.data
          /\ rng' = o.rng
          /\ pc' = IF o.raised THEN "raised" ELSE "returned again"
    /\ UNCHANGED <<num_points, days_back, landsat, satellite_data, features, n_clusters, first,
                   response>>

HarnessNext == TestClassify \/ TestClassifyAgain

ClassifySpec == HarnessInit /\ [][HarnessNext]_vars

(***************************************************************************)
(* The classifier called on the twelve-point batch of end-to-end scenario  *)
(* A, every point with the same vegetation index.                          *)
(***************************************************************************)
ScenarioLst == <<45, 44, 43, 42, 41, 40, 25, 24, 23, 10, 9, 8>>

\* the vegetation index (tenths) the twelve points share
ScenarioNdvi == {2, 4, 6}

ScenarioBatch(v) == Batch([i \in DOMAIN ScenarioLst |-> [LST |-> ScenarioLst[i], NDVI |-> v]])

ScenarioInit ==
    /\ pc = "test"
    /\ num_points = 0
    /\ days_back = 0
    /\ calls = <<>>
    /\ landsat = None
    /\ satellite_data = None
    /\ features = None
    /\ data \in {ScenarioBatch(v) : v \in ScenarioNdvi}
    /\ n_clusters = 3
    /\ rng = None
    /\ first = None
    /\ response = None

ScenarioSpec == ScenarioInit /\ [][HarnessNext]_vars

(***************************************************************************)
(* Properties of the handler (specification Spec).                         *)
(***************************************************************************)
Called(name) == \E i \in DOMAIN calls : calls[i] = name

\* what tells one kind of error response from another: status and error
Kind(r) == [status |-> r.status, error |-> r.error]

\* C1: a request whose integer sample count is below 10 or above 500 ends
\* in the invalid-parameter response, and fetch_satellite_data,
\* sample_points and classify_heat_zones are never invoked for it.
C1_OutOfRangeIsInvalidParameter ==
    (pc # "start" /\ num_points # 0 /\ OutOfRange(num_points))
        => /\ pc = "done"
           /\ response = Some(InvalidParameter)
           /\ calls = <<>>

\* C2: when the provider has zero scenes for the date range, the request
\* ends in an error response whose kind is neither that of the
\* invalid-parameter response nor that of the internal-failure response,
\* and sample_points and classify_heat_zones are not run.
C2_NoScenesIsAKindOfItsOwn ==
    (landsat = Some(0))
        => /\ pc = "done"
           /\ response # None
           /\ Kind(response[1]) # Kind(InvalidParameter)
           /\ Kind(response[1]) # Kind(Failed(<<"Earth Engine request failed">>))
           /\ ~Called("sample_points")
           /\ ~Called("classify_heat_zones")

\* C3: when sample_points returns an empty list, the handler answers with
\* the 'No valid data points found' response; classify_heat_zones is not
\* called and the response carries no statistics.
C3_EmptySampleEndsRequest ==
    (features # None /\ Len(data) = 0)
        => /\ pc = "done"
           /\ response = Some(NoValidData)
           /\ ~Called("classify_heat_zones")
           /\ "statistics" \notin DOMAIN response[1]

\* the provider returned two features and neither passed the filter
C3_Witness ==
    /\ features # None
    /\ Len(features[1]) = 2
    /\ Len(data) = 0
    /\ pc = "done"

\* the provider's feature j is within the plausible ranges
InRange(props) ==
    /\ DOMAIN props = {"LST", "NDVI"}
    /\ props.LST \in -49..69
    /\ props.NDVI \in -10..10

\* C6: every point sample_points returns has NDVI in [-1, 1] and LST
\* strictly between -50 and 70; the points are the provider's features
\* that are in range, in the provider's order (point i is feature
\* data[i].lon), so there are never more points than features.
C6_SampleIsFilteredSubsequence ==
    (features # None)
        => LET f == features[1]
           IN  /\ Len(data) <= Len(f)
               /\ \A i \in DOMAIN data :
                     /\ data[i].ndvi >= -10 /\ data[i].ndvi <= 10
                     /\ data[i].lst > -50 /\ data[i].lst < 70
                     /\ data[i].lon \in DOMAIN f
                     /\ f[data[i].lon].coordinates = <<data[i].lon, data[i].lat>>
                     /\ f[data[i].lon].properties = [LST |-> data[i].lst, NDVI |-> data[i].ndvi]
                     /\ i > 1 => data[i - 1].lon < data[i].lon
               /\ \A j \in DOMAIN f :
                     InRange(f[j].properties) <=> \E i \in DOMAIN data : data[i].lon = j

\* three features, the middle one dropped
C6_Witness ==
    /\ features # None
    /\ Len(features[1]) = 3
    /\ Len(data) = 2
    /\ data[1].lon = 1
    /\ data[2].lon = 3

\* the keys of a sample point
SampleKeys == {"lon", "lat", "lst", "ndvi"}

\* C10: classify_heat_zones leaves the sample points it was given as
\* they were: after the call the caller's list still holds records of
\* lon, lat, lst and ndvi only, those sample_points built.
C10_SamplePointsUnchanged ==
    (pc = "classified")
        => /\ data = sample_points(features[1])
           /\ \A i \in DOMAIN data : DOMAIN data[i] = SampleKeys

(***************************************************************************)
(* Properties of classify_heat_zones (specification ClassifySpec).         *)
(***************************************************************************)
Returned == pc \in {"returned", "returned again"}

ZoneSeq(d) == [i \in DOMAIN d |-> d[i].zone]

InZone(z) == {i \in DOMAIN data : data[i].zone = z}

RECURSIVE LstSum(_)
LstSum(S) ==
    IF S = {} THEN 0
    ELSE LET i == CHOOSE m \in S : TRUE IN data[i].lst + LstSum(S \ {i})

\* C4: on a batch with fewer points than n_clusters, classify_heat_zones
\* raises 'Insufficient data points. Need at least k' before fit_predict
\* is called, returns nothing, and sets no key on any point.
C4_TooFewPointsRaises ==
    (Called("classify_heat_zones") /\ Len(data) < n_clusters)
        => /\ pc = "raised"
           /\ response = Some(Failed(<<"Insufficient data points. Need at least", n_clusters>>))
           /\ ~Called("KMeans.fit_predict")
           /\ first = None
           /\ \A i \in DOMAIN data : DOMAIN data[i] = SampleKeys

\* two points, three clusters
C4_Witness ==
    /\ pc = "raised"
    /\ Len(data) = 2
    /\ n_clusters = 3

\* C5: after classify_heat_zones returns, label_mapping is a bijection
\* from the raw labels 0..k-1 onto the zones 0..k-1, every point's zone
\* is the image of its raw label, and of two zones that hold points the
\* one with the lower number has the mean LST that is at least as high.
C5_ZonesRankClustersByMeanLst ==
    Returned
        => LET mapping == label_mapping(rng[1].fit.centers)
               k == n_clusters
           IN  /\ DOMAIN mapping = 0..(k - 1)
               /\ {mapping[raw] : raw \in DOMAIN mapping} = 0..(k - 1)
               /\ \A i \in DOMAIN data :
                     /\ data[i].cluster_id \in 0..(k - 1)
                     /\ data[i].zone = mapping[data[i].cluster_id]
               /\ \A i, j \in DOMAIN data :
                     (data[i].zone = data[j].zone) <=> (data[i].cluster_id = data[j].cluster_id)
               /\ \A a, b \in 0..(k - 1) :
                     (a < b /\ InZone(a) # {} /\ InZone(b) # {})
                         => LstSum(InZone(a)) * Cardinality(InZone(b))
                              >= LstSum(InZone(b)) * Cardinality(InZone(a))

\* three zones that hold points, none of them with its raw label as rank
C5_Witness ==
    /\ Returned
    /\ n_clusters = 3
    /\ {data[i].zone : i \in DOMAIN data} = {0, 1, 2}
    /\ \A i \in DOMAIN data : data[i].zone # data[i].cluster_id

\* C7: for every classified point and every n_clusters, zone 0 carries
\* Critical / 1 / #ef4444, zone 1 Moderate / 2 / #f97316 and every other
\* zone Low / 3 / #22c55e.
C7_TierIsAFunctionOfZone ==
    \A i \in DOMAIN data :
        "zone" \in DOMAIN data[i]
            => LET d == data[i]
               IN  /\ d.zone \in 0..(n_clusters - 1)
                   /\ d.zone = 0 => d.severity = "Critical" /\ d.priority = 1 /\ d.color = "#ef4444"
                   /\ d.zone = 1 => d.severity = "Moderate" /\ d.priority = 2 /\ d.color = "#f97316"
                   /\ d.zone >= 2 => d.severity = "Low" /\ d.priority = 3 /\ d.color = "#22c55e"

\* four clusters, and points in zone 2 and in zone 3
C7_Witness ==
    /\ Returned
    /\ n_clusters = 4
    /\ \E i, j \in DOMAIN data : data[i].zone = 2 /\ data[j].zone = 3

\* C8: a second classification, of the list the first one returned,
\* yields the zones and the statistics of the first.
C8_SecondClassificationAgrees ==
    (pc = "returned again")
        => /\ first # None
           /\ ZoneSeq(data) = ZoneSeq(first[1])
           /\ Statistics(data, 30, "YYYY-MM-dd") = Statistics(first[1], 30, "YYYY-MM-dd")

\* classified twice, with points in more than one zone
C8_Witness ==
    /\ pc = "returned again"
    /\ Len(data) >= 3
    /\ Cardinality({data[i].zone : i \in DOMAIN data}) >= 2

(***************************************************************************)
(* Scenario A (specification ScenarioSpec).                                *)
(***************************************************************************)
FourEach == <<0, 0, 0, 0, 1, 1, 1, 1, 2, 2, 2, 2>>

SixThreeThree == <<0, 0, 0, 0, 0, 0, 1, 1, 1, 2, 2, 2>>

\* The sum, over the zones of the assignment zs of the twelve points, of
\* the squared distances in LST of a zone's points from the zone's mean,
\* times 27720 (the least common multiple of 1..12): with one vegetation
\* index for all points this is the inertia k-means minimises, up to the
\* scale of the LST column.
Spread(zs) ==
    LET of(z) == {i \in DOMAIN zs : zs[i] = z}
        n(z) == Cardinality(of(z))
        total(z) == SumSeq([i \in DOMAIN zs |-> IF zs[i] = z THEN ScenarioLst[i] ELSE 0])
        squares(z) == SumSeq([i \in DOMAIN zs |-> IF zs[i] = z THEN ScenarioLst[i] * ScenarioLst[i] ELSE 0])
        part(z) == IF n(z) = 0 THEN 0
                   ELSE (n(z) * squares(z) - total(z) * total(z)) * (27720 \div n(z))
    IN  part(0) + part(1) + part(2)

====
